---- MODULE Spec2Model ----
(***************************************************************************)
(* Model of the tool handlers of tableau_dimension_mapper/server.py.       *)
(* A string is a sequence of one-character strings; a CSV file is the      *)
(* sequence of rows csv.reader yields, each row a sequence of cells; a     *)
(* parsed document is the sequence of its nodes in document order.  The    *)
(* server keeps no state between calls: one behaviour is one call against  *)
(* a file system in one of the initial conditions.                         *)
(***************************************************************************)
EXTENDS Integers, Sequences, FiniteSets, TLC

\* ------------------------------------------------------------------ bounds
MaxRows == 2
MaxTextLen == 3
MaxNodes == 3
MaxFields == 4

\* ----------------------------------------------------------------- strings
Space == " "
TextChars == {"A", "B"}

RECURSIVE LStrip(_)
LStrip(s) == IF s # <<>> /\ Head(s) = Space THEN LStrip(Tail(s)) ELSE s

RECURSIVE RStrip(_)
RStrip(s) ==
    IF s # <<>> /\ s[Len(s)] = Space THEN RStrip(SubSeq(s, 1, Len(s) - 1)) ELSE s

\* str.strip()
Strip(s) == RStrip(LStrip(s))

MatchAt(s, sub, i) ==
    /\ i + Len(sub) - 1 <= Len(s)
    /\ SubSeq(s, i, i + Len(sub) - 1) = sub

RECURSIVE CountFrom(_, _, _)
CountFrom(s, sub, i) ==
    IF i + Len(sub) - 1 > Len(s) THEN 0
    ELSE IF MatchAt(s, sub, i) THEN 1 + CountFrom(s, sub, i + Len(sub))
    ELSE CountFrom(s, sub, i + 1)

\* str.count(sub): non-overlapping occurrences, scanning left to right; the
\* empty string occurs between any two characters and at both ends.
Count(s, sub) == IF sub = <<>> THEN Len(s) + 1 ELSE CountFrom(s, sub, 1)

RECURSIVE ReplaceFrom(_, _, _, _)
ReplaceFrom(s, old, new, i) ==
    IF i > Len(s) THEN <<>>
    ELSE IF MatchAt(s, old, i) THEN new \o ReplaceFrom(s, old, new, i + Len(old))
    ELSE <<s[i]>> \o ReplaceFrom(s, old, new, i + 1)

RECURSIVE Interleave(_, _)
Interleave(s, new) ==
    IF s = <<>> THEN new ELSE new \o <<Head(s)>> \o Interleave(Tail(s), new)

\* str.replace(old, new)
Replace(s, old, new) ==
    IF old = <<>> THEN Interleave(s, new) ELSE ReplaceFrom(s, old, new, 1)

\* --------------------------------------------------------------- the inputs
\* Rows as csv.reader yields them: a blank line, a one-column line, a
\* three-column line, and two-column lines, some with padded or blank cells.
CsvRows ==
    { <<>>,
      << <<"A">> >>,
      << <<"C">>, <<"A">>, <<"B">> >>,
      << <<"A">>, <<"B">> >>,
      << <<"B">>, <<"C">> >>,
      << <<"A">>, <<"C">> >>,
      << <<"B">>, <<"A">> >>,
      << <<" ", "B">>, <<"A", " ">> >>,
      << <<" ">>, <<"A">> >>,
      << <<"A", "A">>, <<"B">> >>,
      << <<"A">>, <<"A", "A">> >> }

\* The mapping files of n rows, the texts of n characters.
CsvFiles(n) == [1..n -> CsvRows]
Texts(n) == [1..n -> TextChars]

\* A node of the parsed document: its label, its attributes, its depth.
NoAttrs == [k \in {} |-> <<>>]
Attr(k, v) == [x \in {k} |-> v]

FieldNames == { <<>>, <<"R", " ", "N">>, <<"R", " ", "S">>, <<"P">> }
SheetNames == { <<"P">>, <<"R", " ", "N">> }

NodeKinds ==
    { [label |-> "workbook", attrs |-> a] :
          a \in {NoAttrs, Attr("version", <<"1">>)} }
    \cup { [label |-> "column", attrs |-> a] :
          a \in {NoAttrs} \cup { Attr("name", n) : n \in FieldNames } }
    \cup { [label |-> "worksheet", attrs |-> a] :
          a \in {NoAttrs} \cup { Attr("name", n) : n \in SheetNames } }
    \cup { [label |-> "calculation", attrs |-> a] :
          a \in {NoAttrs, Attr("formula", <<"f">>)} }
    \cup { [label |-> "datasource", attrs |-> NoAttrs] }

\* Column names of one or two words, one of them with a doubled blank.
ClusterNames ==
    { <<"R", " ", "N">>, <<"R", " ", "S">>, <<"S", " ", "N">>,
      <<"S", " ", " ", "S">>, <<"P">> }

\* Depths of the nodes of a one-rooted tree listed in document order.
Shapes(n) ==
    { d \in [1..n -> 0..(n - 1)] :
          \A i \in 1..n : IF i = 1 THEN d[i] = 0
                                   ELSE d[i] \in 1..(d[i - 1] + 1) }

\* A document of n nodes (none: no root), from its nodes' kinds and depths.
Tree(n, k, d) ==
    [i \in 1..n |-> [label |-> k[i].label, attrs |-> k[i].attrs, depth |-> d[i]]]

\* A workbook root whose children are n column nodes of the given names.
ColumnsTree(n, names) ==
    [i \in 1..(n + 1) |->
        IF i = 1 THEN [label |-> "workbook", attrs |-> NoAttrs, depth |-> 0]
        ELSE [label |-> "column", attrs |-> Attr("name", names[i - 1]),
              depth |-> 1]]

\* ------------------------------------------------------------- file system
\* Two candidate target paths: a bare file name and a name inside directory d.
Paths == {"f", "d/f"}

\* os.path.dirname
Dirname(p) == IF p = "f" THEN "" ELSE "d"

NoFile == [exists |-> FALSE, content |-> <<>>]
FileOf(c) == [exists |-> TRUE, content |-> c]
OldContent == <<"C", "C">>

\* os.makedirs(d, exist_ok=True): the empty path raises FileNotFoundError.
MakedirsRaises(d) == d = ""

\* ---------------------------------------------------------------- the state
VARIABLES
    pc,                       \* "idle" before the call, "done" after it
    dirs, files,              \* the file system: directories, path -> file
    name,                     \* the tool called
    result,                   \* the kind of text returned
    rowsIn,                   \* the rows read from the mapping file
    errLine,                  \* validate_mapping_file: the line it names
    mappings,                 \* the (old, new) pairs loaded
    tableau_content,          \* remap: the workbook text read
    modified_content,         \* remap: the text after the loop
    replacements_made,        \* remap: the total
    replacements_by_mapping,  \* remap: dict old -> count
    occurrences,              \* remap: the value of occurrences, per iteration
    replacements_details,     \* remap: the count shown on each rule's line
    output_file_path,         \* remap: the path to write
    file_path, content,       \* write_file: its arguments
    soup,                     \* the document tree parsed from the workbook
    workbook_version,         \* validate / analyze: the version surfaced
    datasources,              \* validate: number of datasource nodes
    worksheets_count,         \* validate: number of worksheet nodes
    columns,                  \* analyze: the fields collected
    calculated_fields,        \* analyze: the formulas collected
    worksheets,               \* analyze: the worksheet names collected
    prefixed_fields,          \* analyze: prefix -> fields, in insertion order
    clusters                  \* analyze: the prefix groups written to the report

vars == << pc, dirs, files, name, result, rowsIn, errLine, mappings,
           tableau_content, modified_content, replacements_made,
           replacements_by_mapping, occurrences, replacements_details,
           output_file_path, file_path, content, soup, workbook_version,
           datasources, worksheets_count, columns, calculated_fields,
           worksheets, prefixed_fields, clusters >>

fsVars == << dirs, files >>
mapVars == << rowsIn, errLine, mappings >>
remapVars == << tableau_content, modified_content, replacements_made,
                replacements_by_mapping, occurrences, replacements_details,
                output_file_path >>
writeVars == << file_path, content >>
treeVars == << soup, workbook_version, datasources, worksheets_count, columns,
               calculated_fields, worksheets, prefixed_fields, clusters >>

\* The texts the handlers return, by kind.
Ok == "ok"
ErrNotCsv == "Error: File must be a CSV file"
ErrLine == "Error: Line does not have at least two columns"
ErrEmpty == "Error: Mapping file is empty"
ErrRemap == "Error remapping dimensions"
ErrWrite == "Error writing to file"
ErrNotTwb == "Error: File must be a Tableau workbook (.twb) file"
ErrNotWorkbook == "Error: File does not appear to be a valid Tableau workbook"
ErrAnalyze == "Error analyzing workbook"

EmptyDict == [k \in {} |-> 0]

Init ==
    /\ pc = "idle"
    /\ \/ dirs = {} /\ files = [p \in Paths |-> NoFile]
       \/ dirs = {"d"} /\ files = [p \in Paths |-> FileOf(OldContent)]
    /\ name = "none"
    /\ result = "none"
    /\ rowsIn = <<>>
    /\ errLine = 0
    /\ mappings = <<>>
    /\ tableau_content = <<>>
    /\ modified_content = <<>>
    /\ replacements_made = 0
    /\ replacements_by_mapping = EmptyDict
    /\ occurrences = <<>>
    /\ replacements_details = <<>>
    /\ output_file_path = ""
    /\ file_path = ""
    /\ content = <<>>
    /\ soup = <<>>
    /\ workbook_version = <<>>
    /\ datasources = 0
    /\ worksheets_count = 0
    /\ columns = <<>>
    /\ calculated_fields = <<>>
    /\ worksheets = <<>>
    /\ prefixed_fields = <<>>
    /\ clusters = <<>>

\* --------------------------------------------------------- mapping loaders
\* remap_dimensions: rows of fewer than two columns are passed over.
RECURSIVE LoadLenient(_)
LoadLenient(rows) ==
    IF rows = <<>> THEN <<>>
    ELSE LET row == Head(rows)
         IN  IF Len(row) >= 2
             THEN << <<Strip(row[1]), Strip(row[2])>> >> \o LoadLenient(Tail(rows))
             ELSE LoadLenient(Tail(rows))

\* validate_mapping_file: the 0-based index of the first row of fewer than
\* two columns, or Len(rows) when there is none.
RECURSIVE FirstShort(_, _)
FirstShort(rows, i) ==
    IF i >= Len(rows) THEN Len(rows)
    ELSE IF Len(rows[i + 1]) < 2 THEN i
    ELSE FirstShort(rows, i + 1)

\* (variant: the 0-based index reported as the line)
LineNumberZeroBased(i) == i

\* the line number of the error message: i+1 for enumerate's index i
LineNumber(i) == i + 1

\* validate_mapping_file: every row read is stripped and appended.
StripRows(rows) == [i \in 1..Len(rows) |-> <<Strip(rows[i][1]), Strip(rows[i][2])>>]

\* (variant: the emptiness test left out)
MappingsEmptyNever(m) == FALSE

\* if not mappings
MappingsEmpty(m) == m = <<>>

\* ---------------------------------------------------------- validate_mapping
ValidateMappingFile(isCsv, rows) ==
    /\ pc' = "done"
    /\ name' = "validate_mapping_file"
    /\ UNCHANGED << fsVars, remapVars, writeVars, treeVars >>
    /\ IF ~isCsv
       THEN /\ result' = ErrNotCsv
            /\ UNCHANGED mapVars
       ELSE /\ rowsIn' = rows
            /\ LET i == FirstShort(rows, 0)
               IN  IF i < Len(rows)
                   THEN /\ result' = ErrLine
                        /\ errLine' = LineNumber(i)
                        /\ mappings' = <<>>
                   ELSE /\ errLine' = 0
                        /\ IF MappingsEmpty(StripRows(rows))
                           THEN result' = ErrEmpty /\ mappings' = <<>>
                           ELSE result' = Ok /\ mappings' = StripRows(rows)

\* ------------------------------------------------------------ remap_dimensions
DictGet(d, k, default) == IF k \in DOMAIN d THEN d[k] ELSE default
DictSet(d, k, v) == [x \in DOMAIN d \cup {k} |-> IF x = k THEN v ELSE d[x]]

\* (variant: the total not accumulated)
ApplyRuleNoTotal(st, rule) ==
    LET old == rule[1]
        new == rule[2]
        occ == Count(st.content, old)
    IN  IF occ > 0
        THEN [content |-> Replace(st.content, old, new),
              made |-> st.made,
              by |-> DictSet(st.by, old, occ),
              occ |-> Append(st.occ, occ)]
        ELSE [st EXCEPT !.occ = Append(@, occ)]

\* One iteration of "for old, new in mappings".
ApplyRule(st, rule) ==
    LET old == rule[1]
        new == rule[2]
        occ == Count(st.content, old)
    IN  IF occ > 0
        THEN [content |-> Replace(st.content, old, new),
              made |-> st.made + occ,
              by |-> DictSet(st.by, old, occ),
              occ |-> Append(st.occ, occ)]
        ELSE [st EXCEPT !.occ = Append(@, occ)]

RECURSIVE ApplyRules(_, _)
ApplyRules(ms, st) ==
    IF ms = <<>> THEN st ELSE ApplyRules(Tail(ms), ApplyRule(st, Head(ms)))

\* The count shown on each rule's line of the replacement details.
Details(ms, by) == [i \in 1..Len(ms) |-> DictGet(by, ms[i][1], 0)]

RemapDimensions(rows, text, out) ==
    /\ pc' = "done"
    /\ name' = "remap_dimensions"
    /\ rowsIn' = rows
    /\ errLine' = 0
    /\ mappings' = LoadLenient(rows)
    /\ UNCHANGED << writeVars, treeVars >>
    /\ IF MappingsEmpty(LoadLenient(rows))
       THEN /\ result' = ErrEmpty
            /\ UNCHANGED << fsVars, remapVars >>
       ELSE LET st == ApplyRules(LoadLenient(rows),
                                 [content |-> text, made |-> 0,
                                  by |-> EmptyDict, occ |-> <<>>])
            IN  /\ tableau_content' = text
                /\ output_file_path' = out
                /\ modified_content' = st.content
                /\ replacements_made' = st.made
                /\ replacements_by_mapping' = st.by
                /\ occurrences' = st.occ
                /\ IF MakedirsRaises(Dirname(out))
                   THEN /\ result' = ErrRemap
                        /\ replacements_details' = <<>>
                        /\ UNCHANGED fsVars
                   ELSE /\ result' = Ok
                        /\ dirs' = dirs \cup {Dirname(out)}
                        /\ files' = [files EXCEPT ![out] = FileOf(st.content)]
                        /\ replacements_details' = Details(LoadLenient(rows), st.by)

\* ------------------------------------------------------------------ write_file
WriteFile(path, text) ==
    /\ pc' = "done"
    /\ name' = "write_file"
    /\ file_path' = path
    /\ content' = text
    /\ UNCHANGED << mapVars, remapVars, treeVars >>
    /\ IF MakedirsRaises(Dirname(path))
       THEN /\ result' = ErrWrite
            /\ UNCHANGED fsVars
       ELSE /\ result' = Ok
            /\ dirs' = dirs \cup {Dirname(path)}
            /\ files' = [files EXCEPT ![path] = FileOf(text)]

\* ------------------------------------------------------------ document tree
\* tag.get(key, default)
Get(node, key, default) ==
    IF key \in DOMAIN node.attrs THEN node.attrs[key] ELSE default

\* soup.find_all(label): every node of that label, in document order
FindAll(t, label) == SelectSeq(t, LAMBDA n : n.label = label)

\* soup.workbook: the first node labelled workbook anywhere in the document
HasWorkbook(t) == FindAll(t, "workbook") # <<>>
Workbook(t) == Head(FindAll(t, "workbook"))

Unknown == <<"u", "n", "k", "n", "o", "w", "n">>

Range(f) == { f[i] : i \in DOMAIN f }

\* (variant: the "not in columns" test left out)
RECURSIVE CollectNoMembership(_, _, _)
CollectNoMembership(nodes, key, acc) ==
    IF nodes = <<>> THEN acc
    ELSE LET v == Get(Head(nodes), key, <<>>)
         IN  CollectNoMembership(Tail(nodes), key,
                 IF v # <<>> THEN Append(acc, v) ELSE acc)

\* "if name and name not in columns: columns.append(name)"
RECURSIVE CollectUnique(_, _, _)
CollectUnique(nodes, key, acc) ==
    IF nodes = <<>> THEN acc
    ELSE LET v == Get(Head(nodes), key, <<>>)
         IN  CollectUnique(Tail(nodes), key,
                 IF v # <<>> /\ v \notin Range(acc) THEN Append(acc, v) ELSE acc)

\* "if name: worksheets.append(name)"
RECURSIVE CollectAll(_, _, _)
CollectAll(nodes, key, acc) ==
    IF nodes = <<>> THEN acc
    ELSE LET v == Get(Head(nodes), key, <<>>)
         IN  CollectAll(Tail(nodes), key,
                 IF v # <<>> THEN Append(acc, v) ELSE acc)

\* analyze_workbook: the three collections
Columns(t) == CollectUnique(FindAll(t, "column"), "name", <<>>)
CalculatedFields(t) == CollectAll(FindAll(t, "calculation"), "formula", <<>>)
Worksheets(t) == CollectAll(FindAll(t, "worksheet"), "name", <<>>)

\* str.split(): the maximal runs of non-blank characters, in order
RECURSIVE SplitFrom(_, _, _)
SplitFrom(s, cur, acc) ==
    IF s = <<>> THEN (IF cur = <<>> THEN acc ELSE Append(acc, cur))
    ELSE IF Head(s) = Space
         THEN SplitFrom(Tail(s), <<>>, IF cur = <<>> THEN acc ELSE Append(acc, cur))
         ELSE SplitFrom(Tail(s), Append(cur, Head(s)), acc)

Split(s) == SplitFrom(s, <<>>, <<>>)

\* (variant: a one-word name grouped under itself)
HasPrefixAny(parts) == Len(parts) >= 1

\* "if len(parts) > 1"
HasPrefix(parts) == Len(parts) > 1

\* (variant: a group of one reported)
IsReportedAny(fields) == Len(fields) >= 1

\* "if len(fields) > 1"
IsReported(fields) == Len(fields) > 1

\* prefixed_fields[prefix].append(column), or a new key at the end of the dict
AddToPrefix(pf, prefix, column) ==
    IF \E i \in 1..Len(pf) : pf[i].prefix = prefix
    THEN [i \in 1..Len(pf) |->
            IF pf[i].prefix = prefix
            THEN [prefix |-> prefix, fields |-> Append(pf[i].fields, column)]
            ELSE pf[i]]
    ELSE Append(pf, [prefix |-> prefix, fields |-> <<column>>])

\* "for column in columns": the dict of prefixes, in insertion order
RECURSIVE GroupByPrefix(_, _)
GroupByPrefix(cols, pf) ==
    IF cols = <<>> THEN pf
    ELSE LET parts == Split(Head(cols))
         IN  GroupByPrefix(Tail(cols),
                 IF HasPrefix(parts) THEN AddToPrefix(pf, parts[1], Head(cols))
                 ELSE pf)

\* "for prefix, fields in prefixed_fields.items(): if len(fields) > 1"
ReportedClusters(pf) == SelectSeq(pf, LAMBDA c : IsReported(c.fields))

\* ------------------------------------------------------ validate_tableau_workbook
ValidateTableauWorkbook(isTwb, t) ==
    /\ pc' = "done"
    /\ name' = "validate_tableau_workbook"
    /\ UNCHANGED << fsVars, mapVars, remapVars, writeVars, columns,
                    calculated_fields, worksheets, prefixed_fields, clusters >>
    /\ IF ~isTwb
       THEN /\ result' = ErrNotTwb
            /\ UNCHANGED << soup, workbook_version, datasources, worksheets_count >>
       ELSE /\ soup' = t
            /\ IF ~HasWorkbook(t)
               THEN /\ result' = ErrNotWorkbook
                    /\ UNCHANGED << workbook_version, datasources, worksheets_count >>
               ELSE /\ result' = Ok
                    /\ workbook_version' = Get(Workbook(t), "version", Unknown)
                    /\ datasources' = Len(FindAll(t, "datasource"))
                    /\ worksheets_count' = Len(FindAll(t, "worksheet"))

\* ------------------------------------------------------------- analyze_workbook
AnalyzeWorkbook(t) ==
    /\ pc' = "done"
    /\ name' = "analyze_workbook"
    /\ UNCHANGED << fsVars, mapVars, remapVars, writeVars, datasources,
                    worksheets_count >>
    /\ soup' = t
    /\ columns' = Columns(t)
    /\ calculated_fields' = CalculatedFields(t)
    /\ worksheets' = Worksheets(t)
    /\ IF ~HasWorkbook(t)
       THEN \* soup.workbook is None: .get raises, caught by the handler
            /\ result' = ErrAnalyze
            /\ UNCHANGED << workbook_version, prefixed_fields, clusters >>
       ELSE /\ result' = Ok
            /\ workbook_version' = Get(Workbook(t), "version", Unknown)
            /\ prefixed_fields' = GroupByPrefix(Columns(t), <<>>)
            /\ clusters' = ReportedClusters(GroupByPrefix(Columns(t), <<>>))

\* A call arrives while the server is idle; its arguments are arbitrary.
CallValidateMappingFile ==
    /\ pc = "idle"
    /\ \E isCsv \in BOOLEAN, n \in 0..MaxRows :
          \E rows \in CsvFiles(n) : ValidateMappingFile(isCsv, rows)

CallRemapDimensions ==
    /\ pc = "idle"
    /\ \E n \in 0..MaxRows, m \in 0..MaxTextLen, out \in Paths :
          \E rows \in CsvFiles(n), text \in Texts(m) :
              RemapDimensions(rows, text, out)

CallWriteFile ==
    /\ pc = "idle"
    /\ \E path \in Paths, m \in 0..MaxTextLen :
          \E text \in Texts(m) : WriteFile(path, text)

CallValidateTableauWorkbook ==
    /\ pc = "idle"
    /\ \E isTwb \in BOOLEAN, n \in 0..MaxNodes :
          \E k \in [1..n -> NodeKinds], d \in Shapes(n) :
              ValidateTableauWorkbook(isTwb, Tree(n, k, d))

CallAnalyzeWorkbook ==
    /\ pc = "idle"
    /\ \E n \in 0..MaxNodes :
          \E k \in [1..n -> NodeKinds], d \in Shapes(n) :
              AnalyzeWorkbook(Tree(n, k, d))

Next ==
    \/ CallValidateMappingFile
    \/ CallRemapDimensions
    \/ CallWriteFile
    \/ CallValidateTableauWorkbook
    \/ CallAnalyzeWorkbook

Spec == Init /\ [][Next]_vars

\* analyze_workbook on the workbooks that hold column nodes only.
CallAnalyzeColumns ==
    /\ pc = "idle"
    /\ \E n \in 0..MaxFields :
          \E names \in [1..n -> ClusterNames] :
              AnalyzeWorkbook(ColumnsTree(n, names))

SpecColumns == Init /\ [][CallAnalyzeColumns]_vars

\* ================================================================== properties
\* A remap that succeeded on rules whose originals are all non-empty.
RemapOk ==
    /\ name = "remap_dimensions"
    /\ result = Ok
    /\ \A i \in 1..Len(mappings) : mappings[i][1] # <<>>

\* The document text after rules 1..k of the loaded mapping set.
RECURSIVE TextAfter(_)
TextAfter(k) ==
    IF k = 0 THEN tableau_content
    ELSE Replace(TextAfter(k - 1), mappings[k][1], mappings[k][2])

RECURSIVE SumSeq(_)
SumSeq(q) == IF q = <<>> THEN 0 ELSE Head(q) + SumSeq(Tail(q))

IsShort(row) == Len(row) < 2
NoDuplicates(q) == \A i, j \in 1..Len(q) : q[i] = q[j] => i = j

\* C1: after a successful remap, the count reported for rule i is the number
\* of non-overlapping occurrences of its original in the text produced by
\* rules 1..i-1, and the text written out is the text after the last rule.
C1_CountsFollowCurrentText ==
    RemapOk =>
        /\ Len(replacements_details) = Len(mappings)
        /\ \A i \in 1..Len(mappings) :
              replacements_details[i] = Count(TextAfter(i - 1), mappings[i][1])
        /\ files[output_file_path] = FileOf(TextAfter(Len(mappings)))

\* C2: after a successful remap, the reported total of replacements is the
\* sum of the counts of the per-rule report, repeated originals included.
C2_TotalIsSumOfReport ==
    RemapOk => replacements_made = SumSeq(replacements_details)

\* C3: when two rules share an original, the count reported for the later
\* one is the number of occurrences found at its own turn.
C3_DuplicateCountedAtItsTurn ==
    RemapOk =>
        \A i, j \in 1..Len(mappings) :
            (i < j /\ mappings[i][1] = mappings[j][1])
                => replacements_details[j] = occurrences[j]

\* C4: a rule whose original does not occur at its turn is listed with count
\* 0; when that is so of every rule the output equals the input and the total
\* is 0.
C4_UnmatchedRulesListedZero ==
    RemapOk =>
        /\ Len(replacements_details) = Len(mappings)
        /\ \A i \in 1..Len(mappings) :
              occurrences[i] = 0 => replacements_details[i] = 0
        /\ (\A i \in 1..Len(mappings) : occurrences[i] = 0)
              => /\ files[output_file_path] = FileOf(tableau_content)
                 /\ replacements_made = 0

\* C5: a remap whose mapping source has no usable row returns the "mapping
\* file is empty" error, runs no substitution and leaves the file system as
\* it was.
C5_EmptyMappingSetNoWrite ==
    [][ (pc = "idle" /\ name' = "remap_dimensions"
            /\ \A i \in 1..Len(rowsIn') : IsShort(rowsIn'[i]))
        => (/\ result' = ErrEmpty
            /\ files' = files
            /\ dirs' = dirs
            /\ occurrences' = <<>>
            /\ modified_content' = modified_content) ]_vars

C5_Witness ==
    /\ name = "remap_dimensions"
    /\ Len(rowsIn) = 2
    /\ \A i \in 1..Len(rowsIn) : IsShort(rowsIn[i])
    /\ result = ErrEmpty
    /\ files["d/f"] = FileOf(OldContent)

\* C6: validate_mapping_file stops at the first row of fewer than two columns,
\* names its 1-based line and reports no rules; remap's loader keeps exactly
\* the other rows, in their order.
C6_StrictVersusLenient ==
    /\ (name = "validate_mapping_file" /\ \E i \in 1..Len(rowsIn) : IsShort(rowsIn[i]))
          => /\ result = ErrLine
             /\ errLine \in 1..Len(rowsIn)
             /\ IsShort(rowsIn[errLine])
             /\ \A j \in 1..(errLine - 1) : ~IsShort(rowsIn[j])
             /\ mappings = <<>>
    /\ name = "remap_dimensions"
          => LET kept == SelectSeq(rowsIn, LAMBDA r : ~IsShort(r))
             IN  /\ Len(mappings) = Len(kept)
                 /\ \A i \in 1..Len(kept) :
                       mappings[i] = <<Strip(kept[i][1]), Strip(kept[i][2])>>

C6_Witness ==
    /\ name = "validate_mapping_file"
    /\ Len(rowsIn) = 2
    /\ ~IsShort(rowsIn[1])
    /\ IsShort(rowsIn[2])
    /\ result = ErrLine
    /\ errLine = 2

IsTrimmed(s) == s = <<>> \/ (Head(s) # Space /\ s[Len(s)] # Space)

\* C7: every rule a loader accepts has both fields trimmed and a non-empty
\* original.
C7_RulesTrimmedAndNonEmpty ==
    name \in {"validate_mapping_file", "remap_dimensions"} =>
        \A i \in 1..Len(mappings) :
            /\ IsTrimmed(mappings[i][1])
            /\ IsTrimmed(mappings[i][2])
            /\ mappings[i][1] # <<>>

\* C8: validate_tableau_workbook succeeds exactly when the root node is the
\* workbook node; otherwise it returns the "not a workbook" error with no
\* version and no counts.
C8_RootMustBeWorkbook ==
    (name = "validate_tableau_workbook" /\ result # ErrNotTwb) =>
        IF soup # <<>> /\ soup[1].label = "workbook"
        THEN result = Ok
        ELSE /\ result = ErrNotWorkbook
             /\ workbook_version = <<>>
             /\ datasources = 0
             /\ worksheets_count = 0

\* The non-empty name attributes of the nodes of a label.
NamesOf(t, label) ==
    { Get(t[i], "name", <<>>) : i \in { j \in 1..Len(t) : t[j].label = label } }
        \ { <<>> }

\* The position in document order of the first node of that label and name.
FirstPos(t, label, v) ==
    CHOOSE i \in 1..Len(t) :
        /\ t[i].label = label /\ Get(t[i], "name", <<>>) = v
        /\ \A j \in 1..(i - 1) : ~(t[j].label = label /\ Get(t[j], "name", <<>>) = v)

\* An ordered collection of the distinct names, by first occurrence.
IsFirstSeenSet(q, t, label) ==
    /\ NoDuplicates(q)
    /\ Range(q) = NamesOf(t, label)
    /\ \A i, j \in 1..Len(q) :
          i < j => FirstPos(t, label, q[i]) < FirstPos(t, label, q[j])

\* C9: the worksheets collection of analyze holds each non-empty worksheet
\* name once, at its first occurrence, so its length is the number of
\* distinct worksheet names.
C9_WorksheetsDistinct ==
    (name = "analyze_workbook" /\ result = Ok) =>
        /\ IsFirstSeenSet(worksheets, soup, "worksheet")
        /\ Len(worksheets) = Cardinality(NamesOf(soup, "worksheet"))

\* C10: the fields collection of analyze holds exactly the distinct non-empty
\* name attributes of the column nodes, each once, in the document order of
\* its first occurrence.
C10_FieldsDistinctFirstSeen ==
    (name = "analyze_workbook" /\ result = Ok) =>
        IsFirstSeenSet(columns, soup, "column")

C10_Witness ==
    /\ name = "analyze_workbook"
    /\ result = Ok
    /\ Len(FindAll(soup, "column")) = 2
    /\ Get(soup[2], "name", <<>>) = <<"R", " ", "N">>
    /\ Get(soup[3], "name", <<>>) = <<"R", " ", "N">>
    /\ columns = << <<"R", " ", "N">> >>

\* A field name of at least two words, and its first word.
HasTwoTokens(f) == Len(Split(f)) >= 2
PrefixOf(f) == Split(f)[1]

\* The first words shared by at least two collected names of two words or more.
SharedPrefixes ==
    { PrefixOf(f) : f \in { g \in Range(columns) :
          /\ HasTwoTokens(g)
          /\ \E h \in Range(columns) :
                h # g /\ HasTwoTokens(h) /\ PrefixOf(h) = PrefixOf(g) } }

\* The position in the field list of the first name carrying that prefix.
FirstWithPrefix(p) ==
    CHOOSE i \in 1..Len(columns) :
        /\ HasTwoTokens(columns[i]) /\ PrefixOf(columns[i]) = p
        /\ \A j \in 1..(i - 1) :
              ~(HasTwoTokens(columns[j]) /\ PrefixOf(columns[j]) = p)

\* C11: the reported clusters are exactly the first words shared by at least
\* two field names of two words or more, in the order of first occurrence of
\* the prefix, each with its members in field order; a one-word name is in no
\* cluster.
C11_ClustersAreSharedPrefixes ==
    (name = "analyze_workbook" /\ result = Ok) =>
        /\ { clusters[i].prefix : i \in 1..Len(clusters) } = SharedPrefixes
        /\ \A i, j \in 1..Len(clusters) :
              i < j => FirstWithPrefix(clusters[i].prefix)
                          < FirstWithPrefix(clusters[j].prefix)
        /\ \A i \in 1..Len(clusters) :
              /\ clusters[i].fields =
                    SelectSeq(columns, LAMBDA f :
                        HasTwoTokens(f) /\ PrefixOf(f) = clusters[i].prefix)
              /\ \A k \in 1..Len(clusters[i].fields) :
                    Len(Split(clusters[i].fields[k])) >= 2

C11_Witness ==
    /\ name = "analyze_workbook"
    /\ result = Ok
    /\ columns = << <<"R", " ", "N">>, <<"P">>, <<"S", " ", "N">>,
                    <<"R", " ", "S">> >>
    /\ clusters = << [prefix |-> <<"R">>,
                      fields |-> << <<"R", " ", "N">>, <<"R", " ", "S">> >>] >>

\* s contains sub as a substring.
Contains(s, sub) == \E i \in 1..(Len(s) + 1) : MatchAt(s, sub, i)

\* No rule's replacement contains another rule's original.
NoCrossContainment ==
    \A i, j \in 1..Len(mappings) :
        i # j => ~Contains(mappings[i][2], mappings[j][1])

\* The same rules applied to the file the remap wrote: the text after rules
\* 1..k, and the count found at rule i's turn.
RECURSIVE SecondTextAfter(_)
SecondTextAfter(k) ==
    IF k = 0 THEN files[output_file_path].content
    ELSE Replace(SecondTextAfter(k - 1), mappings[k][1], mappings[k][2])

SecondCount(i) == Count(SecondTextAfter(i - 1), mappings[i][1])

C13_WriteCreatesDirsAndStores ==
    /\ name = "write_file"
          => /\ result = Ok
             /\ files[file_path] = FileOf(content)
             /\ Dirname(file_path) # "" => Dirname(file_path) \in dirs
    /\ (name = "remap_dimensions" /\ mappings # <<>>
           /\ \A i \in 1..Len(mappings) : mappings[i][1] # <<>>)
          => /\ result = Ok
             /\ files[output_file_path] = FileOf(modified_content)
             /\ Dirname(output_file_path) # ""
                   => Dirname(output_file_path) \in dirs
====
